---- MODULE Spec2Model ----
(***************************************************************************)
(* Uma Event Scanner: the event database (core/event_database.py) and its  *)
(* callers.  A Python str is modelled as the sequence of its Unicode code   *)
(* points, a dict as the sequence of its items in insertion order, a float  *)
(* score a/b as the pair <<a, b>>.                                          *)
(***************************************************************************)
EXTENDS Integers, Sequences, FiniteSets, TLC

VARIABLES
    corpus,   \* the content of DATA_FILE
    events,   \* EventDatabase.events, the dict that self.events is bound to
    loader,   \* the thread inside load_events: its position and locals
    finder,   \* the thread inside find_matching_event: its position and locals
    last,     \* the call that returned last, with its outcome
    window,   \* MainWindow: EventDatabase.THRESHOLD_SCORE as it set it, its
              \* selected_character_id and its source_freq
    scan,     \* MainWindow: the scanning flag, the scan_loop threads, the
              \* event names it remembers, and a log of what the last
              \* handlers did
    history   \* MainWindow.history, the HistoryManager: its lists, and the
              \* threads inside add_entry

(***************************************************************************)
(* Characters.  The model covers ASCII, the two decorative markers of the   *)
(* game UI (U+276F, U+266A) and the kana / CJK ranges the code tests for.   *)
(***************************************************************************)
SP == <<32>>

Range(s) == {s[i] : i \in 1..Len(s)}

\* str.isspace / regex \s on the covered characters
IsSpace(c) == (c >= 9 /\ c <= 13) \/ (c >= 28 /\ c <= 32)

\* regex [a-zA-Z]
IsLatin(c) == (c >= 65 /\ c <= 90) \/ (c >= 97 /\ c <= 122)

\* regex [\u3040-\u309F\u30A0-\u30FF\u4E00-\u9FAF]
IsJapanese(c) ==
    \/ (c >= 12352 /\ c <= 12447)
    \/ (c >= 12448 /\ c <= 12543)
    \/ (c >= 19968 /\ c <= 40879)

\* the code points of the kana blocks that regex \w does not match: the
\* unassigned U+3040, U+3097 and U+3098, the voicing marks U+3099..U+309C,
\* the double hyphen U+30A0 and the middle dot U+30FB
KanaNonWord == {12352, 12439, 12440, 12441, 12442, 12443, 12444, 12448, 12539}

\* regex \w on the covered characters: letters, digits, underscore, kana
\* and ideographs
IsWord(c) ==
    \/ IsLatin(c)
    \/ (c >= 48 /\ c <= 57)
    \/ c = 95
    \/ (IsJapanese(c) /\ c \notin KanaNonWord)

\* str.lower() on one character
LowerChar(c) == IF c >= 65 /\ c <= 90 THEN c + 32 ELSE c

\* str.lower()
Lower(s) == [i \in 1..Len(s) |-> LowerChar(s[i])]

\* sub in s
Contains(sub, s) ==
    \E i \in 0..(Len(s) - Len(sub)) : \A k \in 1..Len(sub) : s[i + k] = sub[k]

\* str.strip()
Strip(s) ==
    LET keep == {i \in 1..Len(s) : ~IsSpace(s[i])}
    IN  IF keep = {} THEN <<>>
        ELSE SubSeq(s, CHOOSE i \in keep : \A j \in keep : i <= j,
                       CHOOSE i \in keep : \A j \in keep : i >= j)

\* str.replace(old, new), old non-empty: leftmost, non-overlapping
RECURSIVE Replace(_, _, _)
Replace(s, old, new) ==
    LET at == {i \in 0..(Len(s) - Len(old)) : \A k \in 1..Len(old) : s[i + k] = old[k]}
    IN  IF at = {} THEN s
        ELSE LET i == CHOOSE k \in at : \A j \in at : k <= j
             IN  SubSeq(s, 1, i) \o new
                   \o Replace(SubSeq(s, i + Len(old) + 1, Len(s)), old, new)

\* str.split(): the maximal runs of non-whitespace characters, in order
Split(s) ==
    LET starts == {i \in 1..Len(s) : ~IsSpace(s[i]) /\ (i = 1 \/ IsSpace(s[i - 1]))}
        ends == {i \in 1..Len(s) : ~IsSpace(s[i]) /\ (i = Len(s) \/ IsSpace(s[i + 1]))}
        nth(set, k) == CHOOSE i \in set : Cardinality({j \in set : j < i}) = k - 1
    IN  [k \in 1..Cardinality(starts) |-> SubSeq(s, nth(starts, k), nth(ends, k))]

\* sep.join(parts)
RECURSIVE Join(_, _)
Join(parts, sep) ==
    IF parts = <<>> THEN <<>>
    ELSE IF Len(parts) = 1 THEN parts[1]
    ELSE parts[1] \o sep \o Join(Tail(parts), sep)

\* re.sub(r'[^\w\s]', '', text)
RemovePunctuation(s) == SelectSeq(s, LAMBDA c : IsWord(c) \/ IsSpace(c))

\* _clean_text that joins the words before it removes the punctuation
CleanTextJoinFirst(text) == RemovePunctuation(Join(Split(text), SP))

\* EventDatabase._clean_text
CleanText(text) == Join(Split(RemovePunctuation(text)), SP)

(***************************************************************************)
(* String literals of find_matching_event and _process_event_data.          *)
(***************************************************************************)
\* '(\u276f)'
ArrowPrefix ==
    <<40, 10095, 41>>

\* '\u266a'
NoteMark ==
    <<9834>>

\* 'lovely training weather'
KeyLovely ==
    <<108, 111, 118, 101, 108, 121, 32, 116, 114, 97, 105, 110, 105, 110,
      103, 32, 119, 101, 97, 116, 104, 101, 114>>

\* '(\u276f) Lovely Training Weather \u266a'
ExactLovely ==
    <<40, 10095, 41, 32, 76, 111, 118, 101, 108, 121, 32, 84, 114, 97, 105,
      110, 105, 110, 103, 32, 87, 101, 97, 116, 104, 101, 114, 32, 9834>>

\* 'i'm not afraid'
KeyAfraid ==
    <<105, 39, 109, 32, 110, 111, 116, 32, 97, 102, 114, 97, 105, 100>>

\* 'im not afraid'
KeyAfraidNoQuote ==
    <<105, 109, 32, 110, 111, 116, 32, 97, 102, 114, 97, 105, 100>>

\* '(\u276f) I'm Not Afraid!'
ExactAfraid ==
    <<40, 10095, 41, 32, 73, 39, 109, 32, 78, 111, 116, 32, 65, 102, 114, 97,
      105, 100, 33>>

\* 'Unknown'
TypeUnknown ==
    <<85, 110, 107, 110, 111, 119, 110>>

\* 'Chain Events'
TypeChain ==
    <<67, 104, 97, 105, 110, 32, 69, 118, 101, 110, 116, 115>>

\* 'Top Option'
TopOption ==
    <<84, 111, 112, 32, 79, 112, 116, 105, 111, 110>>

\* 'Middle Option'
MiddleOption ==
    <<77, 105, 100, 100, 108, 101, 32, 79, 112, 116, 105, 111, 110>>

\* 'Bottom Option'
BottomOption ==
    <<66, 111, 116, 116, 111, 109, 32, 79, 112, 116, 105, 111, 110>>

\* 'Wisdom +5\nSkill points +20\nFine Motion bond +5'
EffectLovelyTop ==
    <<87, 105, 115, 100, 111, 109, 32, 43, 53, 10, 83, 107, 105, 108, 108,
      32, 112, 111, 105, 110, 116, 115, 32, 43, 50, 48, 10, 70, 105, 110,
      101, 32, 77, 111, 116, 105, 111, 110, 32, 98, 111, 110, 100, 32, 43,
      53>>

\* 'Speed +10\nStamina +5'
EffectLovelyMiddle ==
    <<83, 112, 101, 101, 100, 32, 43, 49, 48, 10, 83, 116, 97, 109, 105, 110,
      97, 32, 43, 53>>

\* 'Get Practice Perfect \u25cb status\nFine Motion bond +5'
EffectLovelyBottom ==
    <<71, 101, 116, 32, 80, 114, 97, 99, 116, 105, 99, 101, 32, 80, 101, 114,
      102, 101, 99, 116, 32, 9675, 32, 115, 116, 97, 116, 117, 115, 10, 70,
      105, 110, 101, 32, 77, 111, 116, 105, 111, 110, 32, 98, 111, 110, 100,
      32, 43, 53>>

\* 'Energy -5\nStamina +5\nSkill points +10\nMotivation increases'
EffectAfraidTop ==
    <<69, 110, 101, 114, 103, 121, 32, 45, 53, 10, 83, 116, 97, 109, 105,
      110, 97, 32, 43, 53, 10, 83, 107, 105, 108, 108, 32, 112, 111, 105,
      110, 116, 115, 32, 43, 49, 48, 10, 77, 111, 116, 105, 118, 97, 116,
      105, 111, 110, 32, 105, 110, 99, 114, 101, 97, 115, 101, 115>>

\* 'Speed +10\nStamina +5\nGuts +5'
EffectAfraidBottom ==
    <<83, 112, 101, 101, 100, 32, 43, 49, 48, 10, 83, 116, 97, 109, 105, 110,
      97, 32, 43, 53, 10, 71, 117, 116, 115, 32, 43, 53>>

(***************************************************************************)
(* Event records: the dict {'name', 'choices', 'type'} that                 *)
(* _process_event_data stores and find_matching_event returns.  A choice is *)
(* the dict {'choice', 'effect'}.                                           *)
(***************************************************************************)
EventRecord(name, choices, type) ==
    [name |-> name, choices |-> choices, type |-> type]

Choice(choice, effect) == [choice |-> choice, effect |-> effect]

\* Python None in the place of an event record
NoneEvent == EventRecord(<<>>, <<>>, <<>>)

\* a return value of find_matching_event: an event record, or None
Some(ev) == [found |-> TRUE, ev |-> ev]
None == [found |-> FALSE, ev |-> NoneEvent]

\* the sample event built when 'lovely training weather' has no match
SampleLovely ==
    EventRecord(ExactLovely,
                <<Choice(TopOption, EffectLovelyTop),
                  Choice(MiddleOption, EffectLovelyMiddle),
                  Choice(BottomOption, EffectLovelyBottom)>>,
                TypeChain)

\* the sample event built when "i'm not afraid" has no match
SampleAfraid ==
    EventRecord(ExactAfraid,
                <<Choice(TopOption, EffectAfraidTop),
                  Choice(BottomOption, EffectAfraidBottom)>>,
                TypeChain)

(***************************************************************************)
(* The index self.events: a dict name -> record, as the sequence of its     *)
(* values in insertion order (the key of a record is its 'name').           *)
(***************************************************************************)
Names(index) == {index[i].name : i \in 1..Len(index)}

\* position of the key `name`, 0 when absent
KeyPosition(index, name) ==
    IF name \in Names(index)
    THEN CHOOSE i \in 1..Len(index) : index[i].name = name
    ELSE 0

\* self.events[name] = record: a new key is appended, an existing key keeps
\* its position and has its value replaced
DictSet(index, record) ==
    IF record.name \in Names(index)
    THEN [index EXCEPT ![KeyPosition(index, record.name)] = record]
    ELSE Append(index, record)

(***************************************************************************)
(* Scores: the float a / b is the pair <<a, b>>, b > 0.                     *)
(***************************************************************************)
ScoreZero == <<0, 1>>
ScoreOne == <<1, 1>>

\* the threshold 0.5 of find_matching_event
Threshold == <<1, 2>>

\* a > b on floats
ScoreGT(a, b) == a[1] * b[2] > b[1] * a[2]

\* max(a, b, ...) of Python: the first of the largest
RECURSIVE ScoreMax(_)
ScoreMax(scores) ==
    IF Len(scores) = 1 THEN scores[1]
    ELSE LET rest == ScoreMax(Tail(scores))
         IN  IF ScoreGT(rest, scores[1]) THEN rest ELSE scores[1]

\* EventDatabase._calculate_match_score
CalculateMatchScore(text, event_name) ==
    IF text = <<>> \/ event_name = <<>> THEN ScoreZero
    ELSE IF Contains(event_name, text) THEN ScoreOne
    ELSE LET text_words == Split(text)
             event_words == Split(event_name)
             common_words == Range(text_words) \cap Range(event_words)
         IN  IF event_words = <<>> THEN ScoreZero
             ELSE <<Cardinality(common_words), Len(event_words)>>

\* one event word of _calculate_partial_word_match: is it matched?
PartialWordMatched(event_word, text_words) ==
    IF Len(event_word) <= 3
    THEN event_word \in Range(text_words)
    ELSE \E i \in 1..Len(text_words) :
            LET text_word == text_words[i]
                min_chars == (7 * Len(event_word)) \div 10
            IN  /\ Len(event_word) >= min_chars
                /\ \/ Contains(event_word, text_word)
                   \/ Contains(text_word, event_word)

\* EventDatabase._calculate_partial_word_match
CalculatePartialWordMatch(text, event_name) ==
    IF text = <<>> \/ event_name = <<>> THEN ScoreZero
    ELSE LET text_words == Split(text)
             event_words == Split(event_name)
             matched_words ==
                 Cardinality({i \in 1..Len(event_words) :
                                 PartialWordMatched(event_words[i], text_words)})
         IN  IF event_words = <<>> THEN ScoreZero
             ELSE <<matched_words, Len(event_words)>>

(***************************************************************************)
(* EventDatabase.find_matching_event                                        *)
(***************************************************************************)
\* s with every '(\u276f)' removed and stripped, when it holds one
WithoutPrefix(s) ==
    IF Contains(ArrowPrefix, s) THEN Strip(Replace(s, ArrowPrefix, <<>>)) ELSE s

\* s.replace('(\u276f)', '').replace('\u266a', '').strip()
NormalizeKnown(s) ==
    Strip(Replace(Replace(s, ArrowPrefix, <<>>), NoteMark, <<>>))

\* the dict known_events, in its order
KnownEvents ==
    <<[key |-> KeyLovely, exact |-> ExactLovely],
      [key |-> KeyAfraid, exact |-> ExactAfraid]>>

\* one round of the loop over known_events: the event it returns, or None
\* when it returns nothing
KnownMatch(index, combined_text, known) ==
    IF ~Contains(known.key, Lower(combined_text)) THEN None
    ELSE IF known.exact \in Names(index)
         THEN Some(index[KeyPosition(index, known.exact)])
         ELSE LET hits == {i \in 1..Len(index) :
                              NormalizeKnown(Lower(index[i].name))
                                  = NormalizeKnown(known.key)}
              IN  IF hits = {} THEN None
                  ELSE Some(index[CHOOSE i \in hits : \A j \in hits : i <= j])

\* the loop over known_events
RECURSIVE KnownLoop(_, _, _)
KnownLoop(index, combined_text, knowns) ==
    IF knowns = <<>> THEN None
    ELSE LET r == KnownMatch(index, combined_text, Head(knowns))
         IN  IF r.found THEN r ELSE KnownLoop(index, combined_text, Tail(knowns))

\* the score of one index entry from the uncleaned event name alone
EventScoreRawOnly(cleaned_text, cleaned_text_no_prefix, event_name) ==
    LET event_name_lower == Lower(event_name)
        event_no_prefix == WithoutPrefix(event_name_lower)
        score1 == CalculateMatchScore(cleaned_text, event_name_lower)
        score4 == CalculateMatchScore(cleaned_text_no_prefix, event_no_prefix)
    IN  ScoreMax(<<score1, score4>>)

\* max(score1, ..., score5) of one index entry
EventScore(cleaned_text, cleaned_text_no_prefix, event_name) ==
    LET event_name_lower == Lower(event_name)
        clean_event_name == CleanText(event_name_lower)
        event_no_prefix == WithoutPrefix(event_name_lower)
        clean_event_no_prefix == CleanText(event_no_prefix)
        score1 == CalculateMatchScore(cleaned_text, event_name_lower)
        score2 == CalculateMatchScore(cleaned_text, clean_event_name)
        score3 == CalculatePartialWordMatch(cleaned_text, clean_event_name)
        score4 == CalculateMatchScore(cleaned_text_no_prefix, event_no_prefix)
        score5 == CalculateMatchScore(cleaned_text_no_prefix, clean_event_no_prefix)
    IN  ScoreMax(<<score1, score2, score3, score4, score5>>)

\* best_match = None, best_score = 0
BestStart == [score |-> ScoreZero, match |-> None]

\* a round of the loop that also takes an entry whose score equals the best
\* so far
BestStepLastWins(best, cleaned_text, cleaned_text_no_prefix, event_data) ==
    LET score == EventScore(cleaned_text, cleaned_text_no_prefix, event_data.name)
    IN  IF ~ScoreGT(best.score, score)
        THEN [score |-> score, match |-> Some(event_data)]
        ELSE best

\* one round of the loop over self.events.items()
BestStep(best, cleaned_text, cleaned_text_no_prefix, event_data) ==
    LET score == EventScore(cleaned_text, cleaned_text_no_prefix, event_data.name)
    IN  IF ScoreGT(score, best.score)
        THEN [score |-> score, match |-> Some(event_data)]
        ELSE best

\* the loop over self.events.items()
RECURSIVE BestLoop(_, _, _, _)
BestLoop(best, cleaned_text, cleaned_text_no_prefix, items) ==
    IF items = <<>> THEN best
    ELSE BestLoop(BestStep(best, cleaned_text, cleaned_text_no_prefix, Head(items)),
                  cleaned_text, cleaned_text_no_prefix, Tail(items))

\* after the loop: the threshold test and the sample events
FinishMatch(best, combined_text) ==
    IF ScoreGT(best.score, Threshold) /\ best.match.found THEN best.match
    ELSE IF Contains(KeyLovely, Lower(combined_text)) THEN Some(SampleLovely)
    ELSE IF \/ Contains(KeyAfraid, Lower(combined_text))
            \/ Contains(KeyAfraidNoQuote, Lower(combined_text))
         THEN Some(SampleAfraid)
    ELSE None

\* ' '.join(texts).lower()
CombinedText(texts) == Lower(Join(texts, SP))

\* find_matching_event(texts) on the index
FindMatchingEvent(index, texts) ==
    IF texts = <<>> THEN None
    ELSE LET combined_text == CombinedText(texts)
             cleaned_text == CleanText(combined_text)
             cleaned_text_no_prefix == WithoutPrefix(cleaned_text)
             known == KnownLoop(index, combined_text, KnownEvents)
         IN  IF known.found THEN known
             ELSE FinishMatch(BestLoop(BestStart, cleaned_text,
                                       cleaned_text_no_prefix, index),
                              combined_text)

(***************************************************************************)
(* The corpus file DATA_FILE.  A JSON value that the loader reads as an     *)
(* event name is a string, a number or null; an entry of the events list is *)
(* an object or, malformed, something else.                                 *)
(***************************************************************************)
JStr(s) == [t |-> "str", s |-> s, n |-> 0]
JNum(n) == [t |-> "num", s |-> <<>>, n |-> n]
JNull == [t |-> "null", s |-> <<>>, n |-> 0]

\* bool(value) of Python
Truthy(v) ==
    CASE v.t = "str" -> v.s # <<>>
      [] v.t = "num" -> v.n # 0
      [] OTHER -> FALSE

\* an entry of data['events']: a JSON object with the keys it has
Entry(has_id, id, has_event, event, has_choices, choices, has_type, type) ==
    [is_dict |-> TRUE,
     has_id |-> has_id, id |-> id,
     has_event |-> has_event, event |-> event,
     has_choices |-> has_choices, choices |-> choices,
     has_type |-> has_type, type |-> type]

\* an entry of data['events'] that is no JSON object (null)
NullEntry ==
    [is_dict |-> FALSE,
     has_id |-> FALSE, id |-> <<>>,
     has_event |-> FALSE, event |-> JNull,
     has_choices |-> FALSE, choices |-> <<>>,
     has_type |-> FALSE, type |-> <<>>]

\* an owner of the sections 'characters', 'supportCards', 'scenarios', with
\* the event ids of its eventGroups flattened
Owner(section, id, name, eventIds) ==
    [section |-> section, id |-> id, name |-> name, eventIds |-> eventIds]

\* the file: missing, unreadable, not JSON, or a JSON document
File(kind, top_is_dict, has_events, events_is_list, entries, owners) ==
    [kind |-> kind, top_is_dict |-> top_is_dict, has_events |-> has_events,
     events_is_list |-> events_is_list, entries |-> entries, owners |-> owners]

(***************************************************************************)
(* EventDatabase.load_events and _process_event_data                        *)
(***************************************************************************)
\* _is_english_event without its test for a Latin letter
IsEnglishEventNoLatinTest(text) ==
    IF text = <<>> THEN FALSE
    ELSE IF \E i \in 1..Len(text) : IsJapanese(text[i]) THEN FALSE
    ELSE TRUE

\* EventDatabase._is_english_event on a str
IsEnglishEvent(text) ==
    IF text = <<>> THEN FALSE
    ELSE IF \E i \in 1..Len(text) : IsJapanese(text[i]) THEN FALSE
    ELSE IF ~\E i \in 1..Len(text) : IsLatin(text[i]) THEN FALSE
    ELSE TRUE

\* event.get('event', '')
EventName(entry) == IF entry.has_event THEN entry.event ELSE JStr(<<>>)

\* the record the loop body stores for an entry
RecordOf(entry) ==
    EventRecord(EventName(entry).s,
                IF entry.has_choices THEN entry.choices ELSE <<>>,
                IF entry.has_type THEN entry.type ELSE TypeUnknown)

\* does the loop body raise on this entry?  event.get on a non-dict is an
\* AttributeError, re.search on a truthy non-str name a TypeError
EntryRaises(entry) ==
    \/ ~entry.is_dict
    \/ Truthy(EventName(entry)) /\ EventName(entry).t # "str"

\* does the loop body store this entry?
EntryStored(entry) ==
    /\ ~EntryRaises(entry)
    /\ Truthy(EventName(entry))
    /\ IsEnglishEvent(EventName(entry).s)

\* one round of the loop over data['events'], when it does not raise
ProcessEntry(index, entry) ==
    IF EntryStored(entry) THEN DictSet(index, RecordOf(entry)) ELSE index

\* the loop over data['events'] from self.events = index on, up to the
\* first entry that raises
RECURSIVE ProcessEntries(_, _)
ProcessEntries(index, entries) ==
    IF entries = <<>> THEN index
    ELSE IF EntryRaises(Head(entries)) THEN index
    ELSE ProcessEntries(ProcessEntry(index, Head(entries)), Tail(entries))

\* does load_events reach the loop over data['events']?
ReachesLoop(file) ==
    /\ file.kind = "json"
    /\ file.top_is_dict
    /\ file.has_events
    /\ file.events_is_list

\* self.events when load_events has returned
LoadEvents(file) ==
    IF ReachesLoop(file) THEN ProcessEntries(<<>>, file.entries) ELSE <<>>

\* EventDatabase.get_event_count
GetEventCount(index) == Len(index)

(***************************************************************************)
(* Calls.  An outcome is a returned value or a raised exception.            *)
(***************************************************************************)
Returned(value) == [raised |-> FALSE, exc |-> "", value |-> value]
Raised(exc) == [raised |-> TRUE, exc |-> exc, value |-> None]

\* find_matching_event that reads texts[0] before it tests for an empty list
FindMatchingEventCallFirstFragment(index, args) ==
    IF Len(args) # 1 THEN Raised("TypeError")
    ELSE IF args[1] = <<>> THEN Raised("IndexError")
    ELSE Returned(FindMatchingEvent(index, args[1]))

\* db.find_matching_event(*args): the method takes one argument after self
FindMatchingEventCall(index, args) ==
    IF Len(args) # 1 THEN Raised("TypeError")
    ELSE Returned(FindMatchingEvent(index, args[1]))

\* find_matching_event that stores the sample event it has built, so that
\* the next call finds it in self.events
IndexAfterFindStoresSample(index, args) ==
    LET call == FindMatchingEventCall(index, args)
    IN  IF ~call.raised /\ call.value.found
           /\ call.value.ev.name \notin Names(index)
        THEN DictSet(index, call.value.ev)
        ELSE index

\* self.events after db.find_matching_event(*args): the method reads the
\* dict and its records and assigns none of them
IndexAfterFind(index, args) == index

\* event.get('sources', []) of the callers in main_window
SourcesOf(event) ==
    IF "sources" \in DOMAIN event THEN event.sources ELSE <<>>

(***************************************************************************)
(* Bounds and inputs                                                        *)
(***************************************************************************)
\* the longest events list of the corpus file
MaxEntries == 2

\* 'Ab', 'Go!', 'a b', '12', '\u3042b', 'T', 'c', 'zz'
NameAb == <<65, 98>>
NameGo == <<71, 111, 33>>
NameTwoWords == <<97, 32, 98>>
NameDigits == <<49, 50>>
NameKana == <<12354, 98>>
TypeT == <<84>>
ChoiceText == <<99>>
TextNoMatch == <<122, 122>>

\* 'e1' ... 'e9', 'c1', 's1'
EventId(n) == <<101, 48 + n>>
CharacterId == <<99, 49>>
SupportId == <<115, 49>>

\* 'Lovely Training Weather', "I'm", 'Not', 'Afraid'
TextLovely ==
    <<76, 111, 118, 101, 108, 121, 32, 84, 114, 97, 105, 110, 105, 110, 103,
      32, 87, 101, 97, 116, 104, 101, 114>>
TextIm == <<73, 39, 109>>
TextNot == <<78, 111, 116>>
TextAfraid == <<65, 102, 114, 97, 105, 100>>

\* [{'choice': 'c', 'effect': '<n>'}]
Choices(n) == <<Choice(ChoiceText, <<48 + n>>)>>

\* the entries an events list is made of
EntryPool ==
    { Entry(TRUE, EventId(1), TRUE, JStr(NameAb), TRUE, Choices(1), TRUE, TypeT),
      Entry(TRUE, EventId(2), TRUE, JStr(NameAb), TRUE, Choices(2), FALSE, <<>>),
      Entry(FALSE, <<>>, TRUE, JStr(NameGo), TRUE, Choices(3), TRUE, TypeT),
      Entry(TRUE, EventId(4), FALSE, JNull, TRUE, Choices(4), TRUE, TypeT),
      NullEntry,
      Entry(TRUE, EventId(5), TRUE, JStr(NameDigits), TRUE, Choices(5), TRUE, TypeT),
      Entry(TRUE, EventId(6), TRUE, JStr(ExactLovely), FALSE, <<>>, TRUE, TypeChain),
      Entry(TRUE, <<>>, TRUE, JStr(NameTwoWords), TRUE, Choices(7), TRUE, TypeT),
      Entry(TRUE, EventId(8), TRUE, JStr(NameKana), TRUE, Choices(8), TRUE, TypeT),
      Entry(TRUE, EventId(9), TRUE, JNum(5), TRUE, Choices(9), TRUE, TypeT),
      Entry(TRUE, EventId(3), TRUE, JStr(<<>>), TRUE, Choices(0), TRUE, TypeT) }

\* the owner sections of a corpus file
OwnerPool ==
    <<Owner("characters", CharacterId, <<83, 115>>, {EventId(1), EventId(6)}),
      Owner("supportCards", SupportId, <<75, 107>>, {EventId(2), EventId(1)})>>

\* a well-formed document with the given events list
Document(entries) == File("json", TRUE, TRUE, TRUE, entries, OwnerPool)

\* the well-formed documents within the bound
Documents ==
    {Document(entries) :
        entries \in UNION {[1..n -> EntryPool] : n \in 0..MaxEntries}}

\* no file; a file open() fails on; a file that is not JSON; a JSON list;
\* a JSON object without 'events'; a JSON object whose 'events' is a number
BrokenFiles ==
    { File("missing", FALSE, FALSE, FALSE, <<>>, <<>>),
      File("unreadable", FALSE, FALSE, FALSE, <<>>, <<>>),
      File("invalid_json", FALSE, FALSE, FALSE, <<>>, <<>>),
      File("json", FALSE, FALSE, FALSE, <<>>, <<>>),
      File("json", TRUE, FALSE, FALSE, <<>>, OwnerPool),
      File("json", TRUE, TRUE, FALSE, <<>>, OwnerPool) }

\* the OCR fragment lists of a query
Queries ==
    { <<>>,
      <<NameAb>>,
      <<NameGo>>,
      <<<<97>>, <<98>>>>,
      <<TextLovely>>,
      <<TextIm, TextNot, TextAfraid>>,
      <<TextNoMatch>> }

\* self.selected_character_id: None or the id of the chosen character
CharacterFilters == {JNull, JStr(CharacterId)}

\* 'Training Camp', 'At Last'
NameCamp == <<84, 114, 97, 105, 110, 105, 110, 103, 32, 67, 97, 109, 112>>
NameAtLast == <<65, 116, 32, 76, 97, 115, 116>>

\* 'Lovely', 'Tralning', 'Weather', 'Camp', 'Great', 'Last', 'At'
TextLovelyWord == <<76, 111, 118, 101, 108, 121>>
TextTralning == <<84, 114, 97, 108, 110, 105, 110, 103>>
TextWeather == <<87, 101, 97, 116, 104, 101, 114>>
TextCamp == <<67, 97, 109, 112>>
TextGreat == <<71, 114, 101, 97, 116>>
TextLast == <<76, 97, 115, 116>>
TextAt == <<65, 116>>

\* 'Alpha', 'Beta': owner names; 'c9': an id no owner has
OwnerAlpha == <<65, 108, 112, 104, 97>>
OwnerBeta == <<66, 101, 116, 97>>
UnknownId == <<99, 57>>

\* the entries of the files the window is run on: 'Lovely Training Weather'
\* (e1), 'Training Camp' (e2) and two variants of 'At Last' (e3, e4)
EntryLovely ==
    Entry(TRUE, EventId(1), TRUE, JStr(TextLovely), TRUE, Choices(1), TRUE, TypeT)
EntryCamp ==
    Entry(TRUE, EventId(2), TRUE, JStr(NameCamp), TRUE, Choices(2), TRUE, TypeT)
EntryAtLastAlpha ==
    Entry(TRUE, EventId(3), TRUE, JStr(NameAtLast), TRUE, Choices(3), TRUE, TypeT)
EntryAtLastBeta ==
    Entry(TRUE, EventId(4), TRUE, JStr(NameAtLast), TRUE, Choices(4), TRUE, TypeT)

\* the character 'Alpha' owns e1 and e3, the support card 'Beta' owns e4
WindowOwners ==
    <<Owner("characters", CharacterId, OwnerAlpha, {EventId(1), EventId(3)}),
      Owner("supportCards", SupportId, OwnerBeta, {EventId(4)})>>

\* the files the window is run on
WindowDocuments ==
    {File("json", TRUE, TRUE, TRUE, entries, WindowOwners) :
        entries \in { <<>>,
                      <<EntryLovely>>,
                      <<EntryCamp>>,
                      <<EntryLovely, EntryCamp, EntryAtLastAlpha>>,
                      <<EntryAtLastAlpha, EntryAtLastBeta>>,
                      <<EntryAtLastBeta, EntryAtLastAlpha>> }}

\* the OCR fragment lists the window and the test driver see
WindowQueries ==
    { <<TextLovelyWord, TextTralning, TextWeather>>,
      <<TextTralning, TextCamp>>,
      <<TextGreat, TextLast>>,
      <<TextAt, TextLast>>,
      <<TextNoMatch>> }

\* the longest text given to _clean_text
MaxTextLen == 3

\* 'a', '_', ' ', tab, '!'
TextAlphabet == {97, 95, 32, 9, 33}

\* the texts given to _clean_text
Texts == UNION {[1..n -> TextAlphabet] : n \in 0..MaxTextLen}

\* settings.get('match_threshold', 85): the default of the setting
DefaultMatchThreshold == 85

\* values of threshold_spinbox, whose range is 50..100
ThresholdSettings == {50, DefaultMatchThreshold, 100}

\* values of 'match_threshold' in the settings file at startup: one that
\* save_settings wrote, or 0
SavedThresholds == ThresholdSettings \cup {0}

\* the answers of CharacterSelectDialog.get_character: None when the dialog
\* is cancelled, or the filter it leaves: none for the answer 'clear', a
\* character of the file, a character no event of the file belongs to
CharacterChoices == {None, JNull, JStr(CharacterId), JStr(UnknownId)}

(***************************************************************************)
(* State                                                                    *)
(***************************************************************************)
vars == <<corpus, events, loader, finder, last, window, scan, history>>

LoaderIdle == [pc |-> "idle", entries |-> <<>>, i |-> 0, pre |-> <<>>, post |-> <<>>]

FinderIdle ==
    [pc |-> "idle", texts |-> <<>>, k |-> 0, best |-> BestStart, pos |-> 0,
     live |-> FALSE, items |-> <<>>, size |-> 0, views |-> {}]

\* the record of a call that has returned: views are the complete indexes
\* that were published while the call ran
Call(op, texts, outcome, views) ==
    [op |-> op, texts |-> texts, outcome |-> outcome, views |-> views]

\* MainWindow: the class attribute EventDatabase.THRESHOLD_SCORE it has set,
\* self.selected_character_id and self.source_freq, a Counter
Window(threshold_score, selected_character_id) ==
    [THRESHOLD_SCORE |-> threshold_score,
     selected_character_id |-> selected_character_id,
     source_freq |-> <<>>]

\* int(self.settings.get('match_threshold', 85) or 85)
StartThreshold(saved) == IF saved = 0 THEN DefaultMatchThreshold ELSE saved

\* OCREngine(language, gpu=use_gpu): OCREngine.__init__(self, language)
\* has no parameter for a keyword other than 'language'
OCREngineCall(keywords) ==
    IF keywords \subseteq {"language"} THEN Returned(None)
    ELSE Raised("TypeError")

\* init_ocr on a window whose self.ocr_engine is ocr_engine: the attribute
\* is bound when the constructor returns; an exception is caught and ends
\* in sys.exit(1)
InitOcr(ocr_engine) ==
    IF OCREngineCall({"gpu"}).raised
    THEN [ocr_engine |-> ocr_engine, outcome |-> Raised("SystemExit")]
    ELSE [ocr_engine |-> TRUE, outcome |-> Returned(None)]

\* MainWindow.__init__ up to init_ocr, and init_ocr: no thread, nothing
\* remembered, no popup; scan_region is settings.get('last_region');
\* self.ocr_engine is None, then what init_ocr leaves
ScanStart(scan_region) ==
    [scanning |-> FALSE,
     scan_region |-> scan_region,
     ocr_engine |-> InitOcr(FALSE).ocr_engine,
     threads |-> <<>>,
     last_event_name |-> JNull,
     dismissed_event_name |-> JNull,
     current_popup |-> JNull,
     log |-> <<>>]

\* the threads that call add_entry
Callers == {"first", "second"}

\* the names of the list objects: "a" is the one self.history is bound to,
\* the others are lists that only threads still refer to
ListIds == {"a", "b", "c"}

\* a thread that is not in add_entry. Of a thread that is in it: the entry
\* it has built, the list object it has loaded for the operation it is about
\* to do ("" when none), the list it has sliced, and, for the properties,
\* the list self.history was when the call began and whether no other call
\* of add_entry or clear has run since
CallerIdle ==
    [pc |-> "idle", entry |-> <<>>, ref |-> "", slice |-> <<>>,
     before |-> <<>>, alone |-> TRUE]

\* HistoryManager.__init__: self.history is a new, empty list; no call yet
HistoryStart ==
    [lists |-> [id \in ListIds |-> <<>>], calls |-> 0,
     threads |-> [t \in Callers |-> CallerIdle]]

\* EventDatabase.__init__ has run load_events on the file
Init ==
    /\ corpus \in Documents \cup BrokenFiles
    /\ events = LoadEvents(corpus)
    /\ loader = LoaderIdle
    /\ finder = FinderIdle
    /\ last = Call("__init__", <<>>, Returned(None), {events})
    /\ window = Window(DefaultMatchThreshold, JNull)
    /\ scan = ScanStart(FALSE)
    /\ history = HistoryStart

\* MainWindow() has built the database, applied the saved 'match_threshold'
\* setting and ended in init_ocr; the calls that follow are those of a
\* caller that holds the window
InitWindow ==
    /\ corpus \in WindowDocuments
    /\ events = LoadEvents(corpus)
    /\ loader = LoaderIdle
    /\ finder = FinderIdle
    /\ last = Call("__init__", <<>>, InitOcr(FALSE).outcome, {events})
    /\ \E saved \in SavedThresholds :
          window = Window(StartThreshold(saved), JNull)
    /\ scan = ScanStart(FALSE)
    /\ history = HistoryStart

Idle == loader.pc = "idle" /\ finder.pc = "idle"

(***************************************************************************)
(* The scraper scripts of run_update_scripts rewrite the file.              *)
(***************************************************************************)
ScrapeAppend(entry) ==
    /\ Idle
    /\ ReachesLoop(corpus)
    /\ Len(corpus.entries) < MaxEntries
    /\ corpus' = [corpus EXCEPT !.entries = Append(@, entry)]
    /\ last' = Call("scrape", <<>>, Returned(None), {events})
    /\ UNCHANGED <<events, loader, finder, window, scan, history>>

ScrapeBreak(file) ==
    /\ Idle
    /\ corpus # file
    /\ corpus' = file
    /\ last' = Call("scrape", <<>>, Returned(None), {events})
    /\ UNCHANGED <<events, loader, finder, window, scan, history>>

(***************************************************************************)
(* Calls on one thread                                                      *)
(***************************************************************************)
\* db.load_events()
LoadEventsCall ==
    /\ Idle
    /\ events' = LoadEvents(corpus)
    /\ last' = Call("load_events", <<>>, Returned(None), {events'})
    /\ UNCHANGED <<corpus, loader, finder, window, scan, history>>

\* db.reload_events()
ReloadEventsCall ==
    /\ Idle
    /\ events' = LoadEvents(corpus)
    /\ last' = Call("reload_events", <<>>, Returned(None), {events'})
    /\ UNCHANGED <<corpus, loader, finder, window, scan, history>>

\* event = db.find_matching_event(texts) of test_ocr_images.main
FindCall(texts) ==
    /\ Idle
    /\ last' = Call("find_matching_event", texts,
                    FindMatchingEventCall(events, <<texts>>), {events})
    /\ events' = IndexAfterFind(events, <<texts>>)
    /\ UNCHANGED <<corpus, loader, finder, window, scan, history>>

\* db.find_matching_event(texts, selected_character_id): the call with a
\* character filter, as scan_loop writes it for its OCR text
FindWithFilterCall(texts, selected_character_id) ==
    /\ Idle
    /\ texts # <<>>
    /\ last' = Call("find_with_filter", texts,
                    FindMatchingEventCall(events, <<texts, selected_character_id>>),
                    {events})
    /\ events' = IndexAfterFind(events, <<texts, selected_character_id>>)
    /\ UNCHANGED <<corpus, loader, finder, window, scan, history>>

(***************************************************************************)
(* The settings and the character filter of the window                      *)
(***************************************************************************)
\* save_settings on the window that __init__ has left: its first statement
\* reads self.interval_spinbox, which setup_ui creates, and setup_ui has
\* not run since init_ocr ended the constructor. The AttributeError is
\* raised before EventDatabase.THRESHOLD_SCORE is assigned
SaveSettings ==
    /\ Idle
    /\ last' = Call("save_settings", <<>>, Raised("AttributeError"), {events})
    /\ UNCHANGED <<corpus, events, loader, finder, window, scan, history>>

\* choose_character with the answer char of CharacterSelectDialog. 'if not
\* char: return' leaves everything as it is when the dialog was cancelled.
\* Otherwise the filter is cleared or set to str(char.get("id")); the
\* statement that follows reads self.status_label, which setup_ui creates,
\* and raises AttributeError
ChooseCharacter(char) ==
    /\ Idle
    /\ IF char = None
       THEN /\ UNCHANGED window
            /\ last' = Call("choose_character", <<>>, Returned(None), {events})
       ELSE /\ window' = [window EXCEPT !.selected_character_id = char]
            /\ last' = Call("choose_character", <<>>,
                            Raised("AttributeError"), {events})
    /\ UNCHANGED <<corpus, events, loader, finder, scan, history>>

(***************************************************************************)
(* load_events on one thread while find_matching_event runs on another.     *)
(* A thread switch is taken between the rounds of the loops and between    *)
(* the two reads of self.events in the known-events test.                   *)
(***************************************************************************)
\* load_events up to the loop: self.events is bound to a new, empty dict and
\* the file is read; an iterator that the finder holds keeps the old dict
LoadBegin ==
    /\ loader.pc = "idle"
    /\ events' = <<>>
    /\ loader' = [pc |-> IF ReachesLoop(corpus) THEN "loop" ELSE "end",
                  entries |-> IF ReachesLoop(corpus) THEN corpus.entries ELSE <<>>,
                  i |-> 1,
                  pre |-> events,
                  post |-> LoadEvents(corpus)]
    /\ finder' = IF finder.pc # "idle"
                 THEN [finder EXCEPT
                         !.items = IF finder.live THEN events ELSE @,
                         !.live = FALSE,
                         !.views = @ \cup {LoadEvents(corpus)}]
                 ELSE finder
    /\ UNCHANGED <<corpus, last, window, scan, history>>

\* one round of the loop over data['events']
LoadEntry ==
    /\ loader.pc = "loop"
    /\ loader.i <= Len(loader.entries)
    /\ LET entry == loader.entries[loader.i]
       IN  IF EntryRaises(entry)
           THEN /\ loader' = [loader EXCEPT !.pc = "end"]
                /\ UNCHANGED events
           ELSE /\ loader' = [loader EXCEPT !.i = @ + 1]
                /\ events' = ProcessEntry(events, entry)
    /\ UNCHANGED <<corpus, finder, last, window, scan, history>>

\* the loop is over, or the except clause has caught: load_events returns
LoadEnd ==
    /\ \/ loader.pc = "end"
       \/ loader.pc = "loop" /\ loader.i > Len(loader.entries)
    /\ loader' = LoaderIdle
    /\ last' = Call("load_events", <<>>, Returned(None), {events})
    /\ UNCHANGED <<corpus, events, finder, window, scan, history>>

\* the complete indexes at this moment: the index, or while a load runs the
\* one it replaces and the one it builds
CompleteIndexes ==
    IF loader.pc = "idle" THEN {events} ELSE {loader.pre, loader.post}

\* the finder at the round k of the loop over known_events, up to its next
\* read of self.events and with that read made on the index as it is now:
\* rounds whose key is not in the text are passed; for a key in the text the
\* read is `exact_event in self.events`, and the lookup or the loop over
\* self.events.items() comes next; after the last round the read is the
\* self.events of the main loop, whose dict the finder then holds
RECURSIVE KnownStage(_, _, _, _)
KnownStage(texts, k, index, views) ==
    LET at(pc, live) ==
            [pc |-> pc, texts |-> texts, k |-> k, best |-> BestStart,
             pos |-> 0, live |-> live, items |-> <<>>, size |-> 0,
             views |-> views]
    IN  IF k > Len(KnownEvents) THEN at("loop_items", TRUE)
        ELSE IF ~Contains(KnownEvents[k].key, Lower(CombinedText(texts)))
        THEN KnownStage(texts, k + 1, index, views)
        ELSE IF KnownEvents[k].exact \in Names(index)
        THEN at("known_hit", FALSE)
        ELSE at("known_pre", FALSE)

\* find_matching_event(texts) up to the first read of self.events: the empty
\* query returns here
FindBegin(texts) ==
    /\ finder.pc = "idle"
    /\ IF texts = <<>>
       THEN /\ last' = Call("find_matching_event", texts, Returned(None),
                            CompleteIndexes)
            /\ UNCHANGED finder
       ELSE /\ finder' = KnownStage(texts, 1, events, CompleteIndexes)
            /\ UNCHANGED last
    /\ UNCHANGED <<corpus, events, loader, window, scan, history>>

\* return self.events[exact_event], after `exact_event in self.events` was
\* true and Logger.info has written: the key is looked up in the dict that
\* self.events is bound to now
FindKnownReturn ==
    /\ finder.pc = "known_hit"
    /\ LET exact_event == KnownEvents[finder.k].exact
       IN  last' = Call("find_matching_event", finder.texts,
                        IF exact_event \in Names(events)
                        THEN Returned(Some(events[KeyPosition(events, exact_event)]))
                        ELSE Raised("KeyError"),
                        finder.views)
    /\ finder' = FinderIdle
    /\ UNCHANGED <<corpus, events, loader, window, scan, history>>

\* the dict the finder holds: the one self.events is bound to, or the one
\* it was bound to before load_events has rebound it
FinderDict == IF finder.live THEN events ELSE finder.items

\* self.events.items() of the loop of a known event, after
\* `exact_event in self.events` was false: the finder holds the dict that
\* self.events is bound to now
FindItems ==
    /\ finder.pc = "known_pre"
    /\ finder' = [finder EXCEPT !.pc = "known_items", !.live = TRUE,
                                !.items = <<>>]
    /\ UNCHANGED <<corpus, events, loader, last, window, scan, history>>

\* the iterator of a for loop over the items of the dict the finder holds is
\* made: it records the size the dict has now
FindIter ==
    /\ finder.pc \in {"known_items", "loop_items"}
    /\ finder' = [finder EXCEPT
                    !.pc = IF @ = "known_items" THEN "known_loop" ELSE "loop",
                    !.size = Len(FinderDict),
                    !.pos = 1]
    /\ UNCHANGED <<corpus, events, loader, last, window, scan, history>>

\* the loop of a known event has ended without a return: the next round of
\* the loop over known_events, or the main loop, makes its read of
\* self.events
FindStage ==
    /\ finder.pc = "stage"
    /\ finder' = KnownStage(finder.texts, finder.k, events, finder.views)
    /\ UNCHANGED <<corpus, events, loader, last, window, scan, history>>

\* one round of the loop over self.events.items() in the round k of the
\* known events; the iterator raises RuntimeError when its dict has changed
\* size; when the loop ends the next known event is next
FindKnownStep ==
    /\ finder.pc = "known_loop"
    /\ IF Len(FinderDict) # finder.size
       THEN /\ last' = Call("find_matching_event", finder.texts,
                            Raised("RuntimeError"), finder.views)
            /\ finder' = FinderIdle
       ELSE IF finder.pos > Len(FinderDict)
       THEN /\ finder' = [finder EXCEPT !.pc = "stage", !.k = @ + 1,
                                        !.pos = 0, !.live = FALSE,
                                        !.items = <<>>, !.size = 0]
            /\ UNCHANGED last
       ELSE IF NormalizeKnown(Lower(FinderDict[finder.pos].name))
                   = NormalizeKnown(KnownEvents[finder.k].key)
       THEN /\ last' = Call("find_matching_event", finder.texts,
                            Returned(Some(FinderDict[finder.pos])), finder.views)
            /\ finder' = FinderIdle
       ELSE /\ finder' = [finder EXCEPT !.pos = @ + 1]
            /\ UNCHANGED last
    /\ UNCHANGED <<corpus, events, loader, window, scan, history>>

\* one round of the main loop over self.events.items(); the iterator raises
\* RuntimeError when its dict has changed size
FindStep ==
    /\ finder.pc = "loop"
    /\ LET cleaned_text == CleanText(CombinedText(finder.texts))
       IN  IF Len(FinderDict) # finder.size
           THEN /\ last' = Call("find_matching_event", finder.texts,
                                Raised("RuntimeError"), finder.views)
                /\ finder' = FinderIdle
           ELSE IF finder.pos > Len(FinderDict)
           THEN /\ last' = Call("find_matching_event", finder.texts,
                                Returned(FinishMatch(finder.best,
                                                     CombinedText(finder.texts))),
                                finder.views)
                /\ finder' = FinderIdle
           ELSE /\ finder' = [finder EXCEPT
                                !.best = BestStep(@, cleaned_text,
                                                  WithoutPrefix(cleaned_text),
                                                  FinderDict[finder.pos]),
                                !.pos = @ + 1]
                /\ UNCHANGED last
    /\ UNCHANGED <<corpus, events, loader, window, scan, history>>

Next ==
    \/ LoadEventsCall
    \/ ReloadEventsCall
    \/ \E texts \in Queries : FindCall(texts)
    \/ \E texts \in Queries, id \in CharacterFilters : FindWithFilterCall(texts, id)

\* the calls of one thread on a constructed database
Spec == Init /\ [][Next]_vars

NextLoad ==
    \/ \E entry \in EntryPool : ScrapeAppend(entry)
    \/ \E file \in BrokenFiles : ScrapeBreak(file)
    \/ LoadEventsCall
    \/ ReloadEventsCall

\* the file changes and is loaded again
SpecLoad == Init /\ [][NextLoad]_vars

NextReload ==
    \/ LoadBegin
    \/ LoadEntry
    \/ LoadEnd
    \/ \E texts \in Queries : FindBegin(texts)
    \/ FindKnownReturn
    \/ FindItems
    \/ FindIter
    \/ FindKnownStep
    \/ FindStage
    \/ FindStep

\* a reload on one thread, queries on another
SpecReload == Init /\ [][NextReload]_vars

NextWindow ==
    \/ \E texts \in WindowQueries : FindCall(texts)
    \/ \E texts \in WindowQueries :
          FindWithFilterCall(texts, window.selected_character_id)
    \/ SaveSettings
    \/ \E char \in CharacterChoices : ChooseCharacter(char)

\* a database on no file, before any call of _clean_text
InitClean ==
    /\ corpus = File("missing", FALSE, FALSE, FALSE, <<>>, <<>>)
    /\ events = LoadEvents(corpus)
    /\ loader = LoaderIdle
    /\ finder = FinderIdle
    /\ last = Call("__init__", <<>>, Returned(None), {events})
    /\ window = Window(DefaultMatchThreshold, JNull)
    /\ scan = ScanStart(FALSE)
    /\ history = HistoryStart

\* self._clean_text(text)
CleanTextCall(text) ==
    /\ Idle
    /\ last' = Call("_clean_text", <<text>>, Returned(CleanText(text)), {events})
    /\ UNCHANGED <<corpus, events, loader, finder, window, scan, history>>

NextClean == \E text \in Texts : CleanTextCall(text)

\* _clean_text applied to every text within the bound
SpecClean == InitClean /\ [][NextClean]_vars

\* the window: its settings and its character filter, the call with that
\* filter, and the test driver's calls on the same files
SpecWindow == InitWindow /\ [][NextWindow]_vars

(***************************************************************************)
(* The history of the window (services/managers.py, HistoryManager).        *)
(***************************************************************************)
\* the number of entries add_entry keeps
HistoryLimit == 100

\* the number of add_entry calls of a run
MaxAdds == 102

\* datetime.now(): the reading of the clock, which add_entry stores and no
\* method of HistoryManager reads; one value stands for every reading
Now == "now"

\* the dict add_entry builds
HistoryEntry(timestamp, event, texts) ==
    [timestamp |-> timestamp, event |-> event, texts |-> texts]

\* the texts of the call number n of a run: the one-character string chr(n),
\* so that the entries of a run are told apart
CallTexts(n) == << <<n>> >>

\* the number of the call that made entry
CallOf(entry) == entry.texts[1][1]

\* list.insert(len(list), entry)
InsertAtEnd(list, entry) == Append(list, entry)

\* list.insert(0, entry)
Insert(list, entry) == <<entry>> \o list

\* list[:100]
Slice(list) ==
    IF Len(list) > HistoryLimit THEN SubSeq(list, 1, HistoryLimit) ELSE list

\* the list self.history is bound to
Live(h) == h.lists["a"]

\* no add_entry call is in progress
Quiet(h) == \A t \in Callers : h.threads[t].pc = "idle"

\* the list objects that self.history or a thread refers to
Referenced(h) == {"a"} \cup {h.threads[t].ref : t \in Callers}

\* a name that no list object has
NewList(h) == CHOOSE id \in ListIds : id \notin Referenced(h)

\* 'self.history = list': the list that was bound keeps the threads that
\* refer to it, under another name
Rebind(h, list) ==
    LET held == \E t \in Callers : h.threads[t].ref = "a"
        moved == NewList(h)
    IN  [h EXCEPT
            !.lists = [id \in ListIds |->
                          IF id = "a" THEN list
                          ELSE IF held /\ id = moved THEN h.lists["a"]
                          ELSE h.lists[id]],
            !.threads = [t \in Callers |->
                            IF h.threads[t].ref = "a"
                            THEN [h.threads[t] EXCEPT !.ref = moved]
                            ELSE h.threads[t]]]

\* a list object that nothing refers to is freed
Collect(h) ==
    [h EXCEPT !.lists = [id \in ListIds |->
                            IF id \in Referenced(h) THEN h.lists[id] ELSE <<>>]]

\* the threads that are in add_entry, other than t, have not run alone
Overlap(threads, t) ==
    [u \in Callers |->
        IF u # t /\ threads[u].pc # "idle"
        THEN [threads[u] EXCEPT !.alone = FALSE, !.before = <<>>]
        ELSE threads[u]]

\* add_entry(event, texts) is called on thread t and builds its entry
AddBegin(t, event, texts) ==
    /\ history.threads[t].pc = "idle"
    /\ history.calls < MaxAdds
    /\ history' =
          [history EXCEPT
              !.calls = @ + 1,
              !.threads =
                  [Overlap(@, t) EXCEPT
                      ![t] = [pc |-> "load",
                              entry |-> HistoryEntry(Now, event, texts),
                              ref |-> "", slice |-> <<>>,
                              before |-> Live(history),
                              alone |-> \A u \in Callers \ {t} :
                                            history.threads[u].pc = "idle"]]]
    /\ UNCHANGED <<corpus, events, loader, finder, last, window, scan>>

\* self.history of 'self.history.insert(0, entry)' is read
AddLoad(t) ==
    /\ history.threads[t].pc = "load"
    /\ history' = [history EXCEPT !.threads[t].pc = "insert",
                                  !.threads[t].ref = "a"]
    /\ UNCHANGED <<corpus, events, loader, finder, last, window, scan>>

\* insert(0, entry) on the list that was read
AddInsert(t) ==
    /\ history.threads[t].pc = "insert"
    /\ LET ref == history.threads[t].ref
       IN  history' =
              Collect([history EXCEPT
                          !.lists[ref] = Insert(@, history.threads[t].entry),
                          !.threads[t].pc = "test_load",
                          !.threads[t].ref = ""])
    /\ UNCHANGED <<corpus, events, loader, finder, last, window, scan>>

\* self.history of 'len(self.history) > 100' is read
AddTestLoad(t) ==
    /\ history.threads[t].pc = "test_load"
    /\ history' = [history EXCEPT !.threads[t].pc = "test",
                                  !.threads[t].ref = "a"]
    /\ UNCHANGED <<corpus, events, loader, finder, last, window, scan>>

\* 'if len(...) > 100' on the list that was read; add_entry returns when
\* the list is not longer
AddTest(t) ==
    /\ history.threads[t].pc = "test"
    /\ history' =
          Collect([history EXCEPT
                      !.threads[t] =
                          IF Len(history.lists[history.threads[t].ref])
                                 > HistoryLimit
                          THEN [@ EXCEPT !.pc = "slice_load", !.ref = ""]
                          ELSE CallerIdle])
    /\ UNCHANGED <<corpus, events, loader, finder, last, window, scan>>

\* self.history of 'self.history[:100]' is read
AddSliceLoad(t) ==
    /\ history.threads[t].pc = "slice_load"
    /\ history' = [history EXCEPT !.threads[t].pc = "slice",
                                  !.threads[t].ref = "a"]
    /\ UNCHANGED <<corpus, events, loader, finder, last, window, scan>>

\* [:100] of the list that was read: a new list
AddSlice(t) ==
    /\ history.threads[t].pc = "slice"
    /\ history' =
          Collect([history EXCEPT
                      !.threads[t].slice =
                          Slice(history.lists[history.threads[t].ref]),
                      !.threads[t].pc = "store",
                      !.threads[t].ref = ""])
    /\ UNCHANGED <<corpus, events, loader, finder, last, window, scan>>

\* 'self.history = ...': the attribute is bound to the new list, and
\* add_entry returns
AddStore(t) ==
    /\ history.threads[t].pc = "store"
    /\ history' =
          Collect(Rebind([history EXCEPT !.threads[t] = CallerIdle],
                         history.threads[t].slice))
    /\ UNCHANGED <<corpus, events, loader, finder, last, window, scan>>

\* clear_history, confirmed, on the thread of the window:
\* self.history.clear() binds self.history to a new, empty list
ClearCall ==
    /\ history' =
          Collect(Rebind([history EXCEPT !.threads = Overlap(@, "")], <<>>))
    /\ UNCHANGED <<corpus, events, loader, finder, last, window, scan>>

\* a step of an add_entry call of thread t
AddStep(t) ==
    \/ AddBegin(t, Some(SampleLovely), CallTexts(history.calls + 1))
    \/ AddLoad(t)
    \/ AddInsert(t)
    \/ AddTestLoad(t)
    \/ AddTest(t)
    \/ AddSliceLoad(t)
    \/ AddSlice(t)
    \/ AddStore(t)

NextHistory ==
    \/ \E t \in {"first"} : AddStep(t)
    \/ ClearCall

\* the history of a window: the add_entry calls of its scan thread, one
\* after another, and clear on the thread of the window at any point of them
SpecHistory == InitClean /\ [][NextHistory]_vars

\* the history after n add_entry calls that ran one after another
HistoryAfter(n) ==
    [HistoryStart EXCEPT
        !.lists["a"] =
            [i \in 1..(IF n > HistoryLimit THEN HistoryLimit ELSE n) |->
                HistoryEntry(Now, Some(SampleLovely), CallTexts(n - i + 1))],
        !.calls = n]

\* a window whose history holds one entry less than add_entry keeps
InitCallers ==
    /\ corpus = File("missing", FALSE, FALSE, FALSE, <<>>, <<>>)
    /\ events = LoadEvents(corpus)
    /\ loader = LoaderIdle
    /\ finder = FinderIdle
    /\ last = Call("__init__", <<>>, Returned(None), {events})
    /\ window = Window(DefaultMatchThreshold, JNull)
    /\ scan = ScanStart(FALSE)
    /\ history = HistoryAfter(HistoryLimit - 1)

NextCallers ==
    \/ \E t \in Callers : AddStep(t)
    \/ ClearCall

\* add_entry on two threads at once, as two scan_loop threads call it, and
\* clear, on a history that is about to be trimmed
SpecCallers == InitCallers /\ [][NextCallers]_vars

\* with two threads in add_entry the history holds at most 100 entries
\* whenever no call is in progress, and never more than 102
CallersBounded ==
    /\ Len(Live(history)) <= HistoryLimit + Cardinality(Callers)
    /\ Quiet(history) => Len(Live(history)) <= HistoryLimit

(***************************************************************************)
(* The scan of the window (ui/main_window.py): start_scanning,              *)
(* stop_scanning and the handlers that set the names scan_loop reads. No    *)
(* scan_loop thread is ever started, so scan_loop has no step here.         *)
(***************************************************************************)
\* the scan_loop threads a run may start
MaxThreads == 2

\* the passes and handler calls that scan.log remembers
MaxLog == 2

\* the file the scanning window is run on: 'Lovely Training Weather' and
\* 'Training Camp'
ScanDocument ==
    File("json", TRUE, TRUE, TRUE, <<EntryLovely, EntryCamp>>, WindowOwners)

\* the events a popup can show: the records of the file
PopupEvents == Range(LoadEvents(ScanDocument))

\* what a handler has done: the two names as it leaves them, the values it
\* emitted on event_detected_signal, the (event, texts) it gave to
\* history.add_entry, and the exception it caught ("" when none)
Pass(last_event_name, dismissed_event_name, emitted, recorded, exc) ==
    [last_event_name |-> last_event_name,
     dismissed_event_name |-> dismissed_event_name,
     emitted |-> emitted, recorded |-> recorded, exc |-> exc]

\* the log record of a handler: the names as it found them, the texts it
\* was given, and what it did
LogRecord(op, m, texts, pass) ==
    [op |-> op, texts |-> texts,
     last_event_name |-> m.last_event_name,
     dismissed_event_name |-> m.dismissed_event_name,
     emitted |-> pass.emitted, recorded |-> pass.recorded, exc |-> pass.exc]

\* the log record of a handler, which emits and records nothing
HandlerRecord(op, m) ==
    LogRecord(op, m, <<>>,
              Pass(m.last_event_name, m.dismissed_event_name, <<>>, <<>>, ""))

\* scan.log with one more record: the last MaxLog are kept
Remember(log, record) ==
    IF Len(log) < MaxLog THEN Append(log, record)
    ELSE Append(Tail(log), record)

\* MainWindow() on ScanDocument: it has ended in init_ocr, no scan running
InitScan ==
    /\ corpus = ScanDocument
    /\ events = LoadEvents(corpus)
    /\ loader = LoaderIdle
    /\ finder = FinderIdle
    /\ last = Call("__init__", <<>>, InitOcr(FALSE).outcome, {events})
    /\ window = Window(DefaultMatchThreshold, JNull)
    /\ \E scan_region \in BOOLEAN : scan = ScanStart(scan_region)
    /\ history = HistoryStart

\* on_region_selected(region)
SelectRegion ==
    /\ scan' = [scan EXCEPT !.scan_region = TRUE]
    /\ UNCHANGED <<corpus, events, loader, finder, last, window, history>>

\* start_scanning, from start_btn, which is enabled while no scan is on
StartScanning ==
    /\ ~scan.scanning
    /\ scan.scan_region
    /\ scan.ocr_engine
    /\ Len(scan.threads) < MaxThreads
    /\ scan' = [scan EXCEPT !.scanning = TRUE,
                            !.threads = Append(@, "while")]
    /\ UNCHANGED <<corpus, events, loader, finder, last, window, history>>

\* stop_scanning, from stop_btn or when the window closes
StopScanning ==
    /\ scan.scanning
    /\ scan' = [scan EXCEPT !.scanning = FALSE]
    /\ UNCHANGED <<corpus, events, loader, finder, last, window, history>>

\* EventPopup.close_popup of a popup that shows event and has the window
\* as its parent
ClosePopup(event) ==
    /\ scan' = [scan EXCEPT !.dismissed_event_name = JStr(event.name),
                            !.log = Remember(@, HandlerRecord("close_popup",
                                                              scan))]
    /\ UNCHANGED <<corpus, events, loader, finder, last, window, history>>

\* on_popup_closed
OnPopupClosed ==
    /\ scan' = [scan EXCEPT !.current_popup = JNull,
                            !.dismissed_event_name = scan.last_event_name,
                            !.log = Remember(@, HandlerRecord("on_popup_closed",
                                                              scan))]
    /\ UNCHANGED <<corpus, events, loader, finder, last, window, history>>

\* clear_last_event
ClearLastEvent ==
    /\ scan' = [scan EXCEPT !.last_event_name = JNull,
                            !.dismissed_event_name = JNull,
                            !.log = Remember(@, HandlerRecord("clear_last_event",
                                                              scan))]
    /\ UNCHANGED <<corpus, events, loader, finder, last, window, history>>

NextScan ==
    \/ SelectRegion
    \/ StartScanning
    \/ StopScanning
    \/ \E event \in PopupEvents : ClosePopup(event)
    \/ OnPopupClosed
    \/ ClearLastEvent

\* the window and its scan loop
SpecScan == InitScan /\ [][NextScan]_vars

\* no scan is ever on and no scan_loop thread exists: start_scanning
\* returns at its test of self.ocr_engine
ScanNeverStarts == ~scan.scanning /\ scan.threads = <<>>

(***************************************************************************)
(* The order of the index: find_matching_event on files whose names are     *)
(* parts and rearrangements of one another.                                 *)
(***************************************************************************)
\* 'Training', 'Camp Training'
NameTraining == <<84, 114, 97, 105, 110, 105, 110, 103>>
NameCampTraining ==
    <<67, 97, 109, 112, 32, 84, 114, 97, 105, 110, 105, 110, 103>>

EntryTraining ==
    Entry(TRUE, EventId(5), TRUE, JStr(NameTraining), TRUE, Choices(5), TRUE, TypeT)
EntryCampTraining ==
    Entry(TRUE, EventId(6), TRUE, JStr(NameCampTraining), TRUE, Choices(6), TRUE,
          TypeT)

OrderEntries ==
    {EntryTraining, EntryCamp, EntryCampTraining, EntryAtLastAlpha, EntryLovely}

\* the files: every events list of these entries within the bound
OrderDocuments ==
    {File("json", TRUE, TRUE, TRUE, entries, WindowOwners) :
        entries \in UNION {[1..n -> OrderEntries] : n \in 0..MaxEntries}}

\* the OCR fragment lists: each name as it is stored, two names on one
\* screen, and a text that matches nothing
OrderQueries ==
    { <<NameTraining>>, <<NameCamp>>, <<NameCampTraining>>, <<NameAtLast>>,
      <<TextLovely>>, <<NameAtLast, TextLovely>>, <<TextNoMatch>> }

InitOrder ==
    /\ corpus \in OrderDocuments
    /\ events = LoadEvents(corpus)
    /\ loader = LoaderIdle
    /\ finder = FinderIdle
    /\ last = Call("__init__", <<>>, Returned(None), {events})
    /\ window = Window(DefaultMatchThreshold, JNull)
    /\ scan = ScanStart(FALSE)
    /\ history = HistoryStart

NextOrder == \E texts \in OrderQueries : FindCall(texts)

\* find_matching_event on the files of OrderDocuments
SpecOrder == InitOrder /\ [][NextOrder]_vars

(***************************************************************************)
(* Properties                                                               *)
(***************************************************************************)
\* load_events or reload_events has just returned
LoadReturned == last.op \in {"load_events", "reload_events"}

\* find_matching_event(texts) has just returned an event
FindReturnedEvent ==
    /\ last.op = "find_matching_event"
    /\ ~last.outcome.raised
    /\ last.outcome.value.found

\* the entries of the file that the loop of _process_event_data handles:
\* those before the first one it raises on
HandledEntries(file) ==
    {i \in 1..Len(file.entries) :
        \A j \in 1..i : ~EntryRaises(file.entries[j])}

\* C1: a find_matching_event call that runs while load_events or
\* reload_events runs raises nothing and returns what it returns on a
\* complete index, the one before the reload or the one after it: it never
\* reads an emptied or partially filled index.
C1_ReloadSafety ==
    last.op = "find_matching_event" =>
        /\ ~last.outcome.raised
        /\ \E index \in last.views :
              last.outcome = FindMatchingEventCall(index, <<last.texts>>)

\* C2: load_events, reload_events and find_matching_event, the latter as
\* test_ocr_images and the scan loop call it, never raise to their caller.
C2_NoExceptionToCaller == ~last.outcome.raised

\* C3: find_matching_event returns no match or an event record that is
\* stored in the index at the time of the call.
C3_ReturnsStoredRecord ==
    FindReturnedEvent => last.outcome.value.ev \in Range(events)

\* C4: when the file is missing, unreadable or malformed (not JSON, not a
\* dictionary at the top, or the loop over the events list fails part-way),
\* load_events returns without raising and get_event_count() is 0.
C4_BrokenCorpusLoadsEmpty ==
    /\ LoadReturned
    /\ \/ ~ReachesLoop(corpus)
       \/ \E i \in 1..Len(corpus.entries) : EntryRaises(corpus.entries[i])
    => /\ ~last.outcome.raised
       /\ GetEventCount(events) = 0

\* C5: after load_events every entry that the loader accepted is kept as its
\* own variant, also when an earlier accepted entry has the same display
\* name, so the event count is the number of accepted entries.
C5_EveryAcceptedEntryKept ==
    LoadReturned /\ ReachesLoop(corpus) =>
        LET accepted == {i \in HandledEntries(corpus) :
                            EntryStored(corpus.entries[i])}
        IN  /\ \A i \in accepted : RecordOf(corpus.entries[i]) \in Range(events)
            /\ GetEventCount(events) = Cardinality(accepted)

\* C6: after load_events no entry of the events list whose display name is
\* missing or empty, or whose id is missing or empty, is in the index.
C6_NamelessOrIdlessSkipped ==
    LoadReturned /\ ReachesLoop(corpus) =>
        \A i \in 1..Len(corpus.entries) :
            LET entry == corpus.entries[i]
            IN  /\ entry.is_dict
                /\ \/ ~Truthy(EventName(entry))
                   \/ ~entry.has_id
                   \/ entry.id = <<>>
                => RecordOf(entry) \notin Range(events)

\* C7: one malformed entry does not stop the load: every entry that is well
\* formed and passes the filters, before or after it, is in the index after
\* load_events.
C7_MalformedEntrySkipped ==
    LoadReturned /\ ReachesLoop(corpus) =>
        \A i \in 1..Len(corpus.entries) :
            EntryStored(corpus.entries[i]) =>
                EventName(corpus.entries[i]).s \in Names(events)

\* C8: after any load_events or reload_events no entry of the index has a
\* display name without a Latin letter.
C8_IndexNamesHaveLatinLetter ==
    \A i \in 1..Len(events) :
        \E k \in 1..Len(events[i].name) : IsLatin(events[i].name[k])

\* C8 witness: a load has stored an entry and has rejected an earlier entry
\* whose name, '12', is a non-empty string without a Latin letter.
C8_Witness ==
    /\ LoadReturned
    /\ ReachesLoop(corpus)
    /\ events # <<>>
    /\ \E i \in HandledEntries(corpus) :
          /\ EventName(corpus.entries[i]) = JStr(NameDigits)
          /\ NameDigits \notin Names(events)

\* C9: for every name N stored in the index, the query of the one fragment N
\* gives the index entry of N the score 1.0, which is above the threshold.
C9_ExactNameScoresOne ==
    \A i \in 1..Len(events) :
        LET cleaned_text == CleanText(CombinedText(<<events[i].name>>))
            score == EventScore(cleaned_text, WithoutPrefix(cleaned_text),
                                events[i].name)
        IN  /\ score[1] = score[2]
            /\ ScoreGT(score, Threshold)

\* C9 witness: the query ['Go!'] has returned the stored event 'Go!', whose
\* name is not its own cleaned form.
C9_Witness ==
    /\ FindReturnedEvent
    /\ last.texts = <<NameGo>>
    /\ last.outcome.value.ev.name = NameGo
    /\ last.outcome.value.ev \in Range(events)
    /\ CleanText(Lower(NameGo)) # Lower(NameGo)

\* C10: every event that find_matching_event returns has a display name, a
\* type, choices and a sources list, and the list holds exactly the owners
\* of the file whose event ids include the id of the event.
C10_ReturnedEventHasSources ==
    FindReturnedEvent =>
        LET ev == last.outcome.value.ev
            ids == {corpus.entries[i].id :
                       i \in {j \in 1..Len(corpus.entries) :
                                 RecordOf(corpus.entries[j]) = ev}}
            owners == {k \in 1..Len(corpus.owners) :
                          corpus.owners[k].eventIds \cap ids # {}}
        IN  /\ {"name", "type", "choices", "sources"} \subseteq DOMAIN ev
            /\ Len(SourcesOf(ev)) = Cardinality(owners)

\* C11: a query whose tokens are the tokens of a stored event name, one of
\* them with one wrong character in a token of five or more characters (80%
\* of the token is right), returns that event, whatever the number of tokens
\* of the name.
C11_TypoQueryReturnsEvent ==
    last.op = "find_matching_event" =>
        \A i \in 1..Len(events) :
            LET words == Split(Lower(events[i].name))
                query == [k \in 1..Len(last.texts) |-> Lower(last.texts[k])]
                OneTypo(a, b) ==
                    /\ Len(a) = Len(b)
                    /\ Len(a) >= 5
                    /\ Cardinality({p \in 1..Len(a) : a[p] # b[p]}) = 1
            IN  /\ Len(query) = Len(words)
                /\ \E k \in 1..Len(words) :
                      /\ OneTypo(query[k], words[k])
                      /\ \A j \in 1..Len(words) : j # k => query[j] = words[j]
                => last.outcome = Returned(Some(events[i]))

\* C12: with the match threshold that the window has configured, a value T
\* of 0..100, find_matching_event never returns a stored event whose score
\* for the query, on the scale of 0..100, is below T.
C12_ScoreAtLeastConfiguredThreshold ==
    FindReturnedEvent /\ last.outcome.value.ev \in Range(events) =>
        LET cleaned_text == CleanText(CombinedText(last.texts))
            score == EventScore(cleaned_text, WithoutPrefix(cleaned_text),
                                last.outcome.value.ev.name)
        IN  score[1] * 100 >= window.THRESHOLD_SCORE * score[2]

\* C15: find_matching_event called with an empty list of fragments raises
\* nothing and returns no match, whatever the index holds.
C15_EmptyQueryNoMatch ==
    last.op = "find_matching_event" /\ last.texts = <<>> =>
        last.outcome = Returned(None)

\* C15 witness: the empty query has been answered on an index that holds
\* events.
C15_Witness ==
    /\ last.op = "find_matching_event"
    /\ last.texts = <<>>
    /\ events # <<>>
    /\ ~last.outcome.raised
    /\ ~last.outcome.value.found

\* C16: _clean_text is idempotent: cleaning the cleaned form of a text gives
\* the cleaned form.
C16_CleanTextIdempotent ==
    last.op = "_clean_text" =>
        CleanText(last.outcome.value) = last.outcome.value

\* C16 witness: _clean_text has removed a '!' and white space from a text
\* and has left a word, so the cleaned form is not the text.
C16_Witness ==
    /\ last.op = "_clean_text"
    /\ last.outcome.value # last.texts[1]
    /\ last.outcome.value # <<>>
    /\ \E k \in 1..Len(last.texts[1]) : last.texts[1][k] = 33
    /\ \E k \in 1..Len(last.texts[1]) : IsSpace(last.texts[1][k])

\* C17: the score of an event name for a query does not depend on the order
\* of the query's tokens: for every permutation of the fragments, each of
\* one token, every index entry has the same score and the call returns the
\* same result.
C17_TokenOrderIrrelevant ==
    last.op = "find_matching_event" =>
        LET n == Len(last.texts)
            ScoreOf(texts, name) ==
                EventScore(CleanText(CombinedText(texts)),
                           WithoutPrefix(CleanText(CombinedText(texts))), name)
        IN  \A p \in {q \in [1..n -> 1..n] :
                         \A a \in 1..n, b \in 1..n : a # b => q[a] # q[b]} :
                LET permuted == [k \in 1..n |-> last.texts[p[k]]]
                IN  /\ \A i \in 1..Len(events) :
                          LET s1 == ScoreOf(last.texts, events[i].name)
                              s2 == ScoreOf(permuted, events[i].name)
                          IN  s1[1] * s2[2] = s2[1] * s1[2]
                    /\ FindMatchingEventCall(events, <<permuted>>) = last.outcome

\* C18: when the call is made with a character filter and the matched
\* name has several variants in the file, one of them owned by the selected
\* character, the call returns a variant that this character owns.
C18_FilterPrefersOwnedVariant ==
    /\ last.op = "find_with_filter"
    /\ window.selected_character_id # JNull
    /\ FindMatchingEvent(events, last.texts).found
    => LET name == FindMatchingEvent(events, last.texts).ev.name
           variants == {i \in 1..Len(corpus.entries) :
                           EventName(corpus.entries[i]) = JStr(name)}
           owned == {i \in variants :
                        \E k \in 1..Len(corpus.owners) :
                            /\ corpus.owners[k].id = window.selected_character_id.s
                            /\ corpus.entries[i].id \in corpus.owners[k].eventIds}
       IN  Cardinality(variants) >= 2 /\ owned # {} =>
               \E i \in owned :
                   last.outcome = Returned(Some(RecordOf(corpus.entries[i])))

\* C19: a character filter never turns a match into no match: when the
\* query has a match without a filter, the call with the character filter
\* of the window, whichever it is, returns a match too.
C19_FilterKeepsMatch ==
    /\ last.op = "find_with_filter"
    /\ window.selected_character_id # JNull
    /\ FindMatchingEventCall(events, <<last.texts>>).value.found
    => /\ ~last.outcome.raised
       /\ last.outcome.value.found

\* C26: after any sequence of add_entry and clear calls the history holds at
\* most 100 entries, newest first: it holds at most 100 whenever no add_entry
\* is in progress and never more than 101, and each entry was made by a later
\* call than the entry behind it. An add_entry call that no clear has
\* interrupted puts its entry first and keeps behind it the entries the
\* history had when it began: all of them, or, on a history of 100 entries,
\* the first 99 in their order without the oldest.
C26_HistoryBoundedNewestFirst ==
    [][/\ Len(Live(history')) <= HistoryLimit + 1
       /\ Quiet(history') => Len(Live(history')) <= HistoryLimit
       /\ \A i \in 1..(Len(Live(history')) - 1) :
             CallOf(Live(history')[i]) > CallOf(Live(history')[i + 1])
       /\ \A t \in Callers :
             LET call == history.threads[t]
             IN  /\ call.pc # "idle"
                 /\ history'.threads[t].pc = "idle"
                 /\ call.alone
                 => /\ Live(history') # <<>>
                    /\ Live(history')[1] = call.entry
                    /\ Len(call.before) < HistoryLimit
                          => Tail(Live(history')) = call.before
                    /\ Len(call.before) = HistoryLimit
                          => Tail(Live(history'))
                               = SubSeq(call.before, 1, HistoryLimit - 1)]_vars

\* C26 witness: the call number 101 or later has returned: its entry is the
\* first of a history of 100 entries, and no call is in progress.
C26_Witness ==
    /\ Quiet(history)
    /\ Len(Live(history)) = HistoryLimit
    /\ history.calls > HistoryLimit
    /\ CallOf(Live(history)[1]) = history.calls

\* C22: find_matching_event leaves the event index unchanged: the stored
\* names and every stored record are the same before and after a match call,
\* whatever the call returns
C22_FindLeavesIndexUnchanged ==
    [][last'.op \in {"find_matching_event", "find_with_filter"} => events' = events]_vars

\* a match call on a loaded index has returned an event that the index does
\* not hold
C22_Witness ==
    /\ last.op = "find_matching_event"
    /\ events # <<>>
    /\ last.outcome.value.found
    /\ last.outcome.value.ev.name \notin Names(events)

\* the score the loop of find_matching_event gives the entry `name` for the
\* OCR fragments texts
ScoreOf(texts, name) ==
    EventScore(CleanText(CombinedText(texts)),
               WithoutPrefix(CleanText(CombinedText(texts))), name)

\* the positions of the index whose score for texts no other entry exceeds
TopPositions(index, texts) ==
    {i \in 1..Len(index) :
        \A j \in 1..Len(index) :
            ~ScoreGT(ScoreOf(texts, index[j].name), ScoreOf(texts, index[i].name))}

\* the first position of a non-empty set of positions
FirstOf(positions) == CHOOSE i \in positions : \A j \in positions : i <= j

\* the text holds one of the keys of known_events
HoldsKnownKey(texts) ==
    \/ Contains(KeyLovely, Lower(CombinedText(texts)))
    \/ Contains(KeyAfraid, Lower(CombinedText(texts)))

\* the claim as stated, for a highest score that passes the threshold:
\* when several index entries reach the same highest score,
\* find_matching_event returns the one inserted first
C29_TieReturnsFirstInserted ==
    (/\ last.op = "find_matching_event"
     /\ Cardinality(TopPositions(events, last.texts)) >= 2
     /\ ScoreGT(ScoreOf(last.texts,
                        events[FirstOf(TopPositions(events, last.texts))].name),
                Threshold))
    => last.outcome = Returned(Some(events[FirstOf(TopPositions(events,
                                                                last.texts))]))

\* C29, amended: when several index entries reach the same highest score,
\* that score is above 0.5 and the text holds no key of known_events,
\* find_matching_event returns the one inserted first
C29_TieAboveThresholdReturnsFirst ==
    (/\ last.op = "find_matching_event"
     /\ Cardinality(TopPositions(events, last.texts)) >= 2
     /\ ScoreGT(ScoreOf(last.texts,
                        events[FirstOf(TopPositions(events, last.texts))].name),
                Threshold)
     /\ ~HoldsKnownKey(last.texts))
    => last.outcome = Returned(Some(events[FirstOf(TopPositions(events,
                                                                last.texts))]))

\* two entries tie above the threshold on a text without a known key, and
\* the call has returned an event
C29_Witness ==
    /\ last.op = "find_matching_event"
    /\ Cardinality(TopPositions(events, last.texts)) >= 2
    /\ ScoreGT(ScoreOf(last.texts,
                       events[FirstOf(TopPositions(events, last.texts))].name),
               Threshold)
    /\ ~HoldsKnownKey(last.texts)
    /\ ~last.outcome.raised
    /\ last.outcome.value.found

\* C30: when the query text is the display name of an index entry E,
\* find_matching_event returns E, also when the name of another entry is a
\* substring or a word subset of the query
C30_ExactNameReturnsItsEntry ==
    (/\ last.op = "find_matching_event"
     /\ Len(last.texts) = 1
     /\ last.texts[1] \in Names(events))
    => last.outcome = Returned(Some(events[KeyPosition(events, last.texts[1])]))

====
